---- MODULE Spec2Model ----
(***************************************************************************)
(* app::compare_docs (src/app/doc_diff.cpp): the structural comparison of  *)
(* two documents a and b, producing a DocDiff record of flags.             *)
(*                                                                         *)
(* The two documents are read-only objects that compare_docs consumes      *)
(* through accessor calls.  The state of the machine is the state of the   *)
(* call: the accumulator diff, the position pc in the fixed sequence of    *)
(* dimension checks, the loop index i and the collection sizes of the      *)
(* loop in progress, and what the last step fetched from each document     *)
(* (aCur, bCur).  A step's input is what its accessor calls return; the    *)
(* total frame counts, which are read by two different checks, are part    *)
(* of a and b from the start.                                              *)
(***************************************************************************)
EXTENDS Integers, Sequences, FiniteSets, TLC

\* Bounds of the model.
MaxFrames == 3
MaxTags == 1
MaxPalettes == 2
MaxTilesets == 2
MaxTiles == 2
MaxLayers == 2

VARIABLES
  focus,   \* which dimension of the documents is drawn from its full domain
  pc,      \* the dimension check compare_docs is about to run
  diff,    \* the DocDiff accumulator
  a, b,    \* the sprites' total frame counts
  aCur,    \* what the last step fetched from document a
  bCur,    \* what the last step fetched from document b
  aCount,  \* size of a's collection in the loop last entered
  bCount,  \* size of b's collection in the loop last entered
  i,       \* index of the loop last entered
  delta    \* how the fetched parts of a and b differed so far:
           \* "none", "width" (canvas width only) or "other"

vars == <<focus, pc, diff, a, b, aCur, bCur, aCount, bCount, i, delta>>

Min(x, y) == IF x < y THEN x ELSE y
Max(x, y) == IF x < y THEN y ELSE x

(***************************************************************************)
(* DocDiff                                                                 *)
(***************************************************************************)
DimFlags == {"canvas", "totalFrames", "frameDuration", "tags", "palettes",
             "tilesets", "layers", "cels", "images", "colorProfiles",
             "gridBounds"}
Flags == DimFlags \cup {"anything"}

\* DocDiff diff;  every flag starts false
NoDiff == [f \in Flags |-> FALSE]

\* a flag set without anything
SetFlagOnly(d, flag) == [d EXCEPT ![flag] = TRUE]

\* diff.anything = diff.<flag> = true;
SetFlag(d, flag) == [d EXCEPT !["anything"] = TRUE, ![flag] = TRUE]

\* nothing fetched: no loop body is running
Unread == [null |-> TRUE]

(***************************************************************************)
(* Images and the image-equality primitive                                 *)
(***************************************************************************)
NoImage == [null |-> TRUE]

\* an image of height 1: w is its width, pix its pixels
ImagesOfWidth(w) ==
  {[w |-> w, h |-> 1, pix |-> [k \in 1..w |-> IF k = w THEN c ELSE 0]] : c \in {0, 1}}

ImageBounds(img) == <<0, 0, img.w, img.h>>

\* doc::is_same_image: same size and every pixel equal
is_same_image(i1, i2) ==
  /\ i1.w = i2.w
  /\ i1.h = i2.h
  /\ \A k \in 1..(i1.w * i1.h) : i1.pix[k] = i2.pix[k]

(***************************************************************************)
(* 1. Canvas                                                               *)
(***************************************************************************)
BaseCanvas == [width |-> 32, height |-> 32, pixelFormat |-> "IMAGE_RGB"]

Canvases ==
  IF focus = "all"
  THEN [width : {32, 64}, height : {32, 64}, pixelFormat : {"IMAGE_RGB", "IMAGE_INDEXED"}]
  ELSE {BaseCanvas}

\* the width left out of the comparison
CanvasDiffersNoWidth(ac, bc) ==
  \/ ac.height # bc.height
  \/ ac.pixelFormat # bc.pixelFormat

CanvasDiffers(ac, bc) ==
  \/ ac.width # bc.width
  \/ ac.height # bc.height
  \/ ac.pixelFormat # bc.pixelFormat

CompareCanvas(d, ac, bc) ==
  IF CanvasDiffers(ac, bc) THEN SetFlag(d, "canvas") ELSE d

WidthOnly(ac, bc) ==
  /\ ac.width # bc.width
  /\ [ac EXCEPT !.width = bc.width] = bc

(***************************************************************************)
(* 2. Frame count and frame durations                                      *)
(***************************************************************************)
Sprites == [totalFrames : 1..MaxFrames]

Durations(s) ==
  IF focus = "all"
  THEN [0..(s.totalFrames - 1) -> {100, 200}]
  ELSE {[f \in 0..(s.totalFrames - 1) |-> 100]}

CompareFrames(d, sa, sb, aDur, bDur) ==
  IF sa.totalFrames # sb.totalFrames
  THEN SetFlag(d, "totalFrames")
  ELSE IF \E f \in 0..(sa.totalFrames - 1) : aDur[f] # bDur[f]
       THEN SetFlag(d, "frameDuration")
       ELSE d

(***************************************************************************)
(* 3. Tags                                                                 *)
(***************************************************************************)
BaseTag == [fromFrame |-> 0, toFrame |-> 0, name |-> "Tag", color |-> 0,
            aniDir |-> "FORWARD", repeat |-> 0]

TagValues ==
  IF focus = "all"
  THEN {BaseTag,
        [BaseTag EXCEPT !.fromFrame = 1, !.toFrame = 1],
        [BaseTag EXCEPT !.toFrame = 1],
        [BaseTag EXCEPT !.name = "Loop"],
        [BaseTag EXCEPT !.color = 255],
        [BaseTag EXCEPT !.aniDir = "REVERSE"],
        [BaseTag EXCEPT !.repeat = 2]}
  ELSE {BaseTag}

SeqsUpTo(S, lo, hi) == UNION {[1..n -> S] : n \in lo..hi}

TagLists == IF focus = "all" THEN SeqsUpTo(TagValues, 0, MaxTags) ELSE {<<BaseTag>>}

TagDiffers(aTag, bTag) ==
  \/ aTag.fromFrame # bTag.fromFrame
  \/ aTag.toFrame # bTag.toFrame
  \/ aTag.name # bTag.name
  \/ aTag.color # bTag.color
  \/ aTag.aniDir # bTag.aniDir
  \/ aTag.repeat # bTag.repeat

CompareTags(d, aTags, bTags) ==
  IF Len(aTags) # Len(bTags)
  THEN SetFlag(d, "tags")
  ELSE IF \E k \in 1..Len(aTags) : TagDiffers(aTags[k], bTags[k])
       THEN SetFlag(d, "tags")
       ELSE d

(***************************************************************************)
(* 4. Palettes                                                             *)
(***************************************************************************)
\* a palette is its sequence of colors
BasePalette == <<0>>

PaletteValues ==
  IF focus \in {"all", "palettes"} THEN {<<0>>, <<1>>, <<0, 1>>} ELSE {BasePalette}

PaletteLists ==
  IF focus \in {"all", "palettes"}
  THEN SeqsUpTo(PaletteValues, 1, MaxPalettes)
  ELSE {<<BasePalette>>}

\* Palette::countDiff(other, nullptr, nullptr): the number of entries that differ
CountDiff(p, q) ==
  (Max(Len(p), Len(q)) - Min(Len(p), Len(q)))
    + Cardinality({c \in 1..Min(Len(p), Len(q)) : p[c] # q[c]})

\* palette contents compared whatever the list lengths
PalettesComparedAlways(aPals, bPals) == TRUE

\* line 78: the guard of the pairwise palette comparison
PalettesCompared(aPals, bPals) == Len(aPals) # Len(bPals)

ComparePalettes(d, aPals, bPals) ==
  IF /\ PalettesCompared(aPals, bPals)
     /\ \E k \in 1..Min(Len(aPals), Len(bPals)) : CountDiff(aPals[k], bPals[k]) # 0
  THEN SetFlag(d, "palettes")
  ELSE d

(***************************************************************************)
(* 5. Tilesets                                                             *)
(***************************************************************************)
BaseTileset == [tileSize |-> <<1, 1>>,
                tiles |-> <<[w |-> 1, h |-> 1, pix |-> <<0>>]>>]

TilesetsOfSize(w, lo, hi) ==
  {[tileSize |-> <<w, 1>>, tiles |-> t] : t \in SeqsUpTo(ImagesOfWidth(w), lo, hi)}

TilesetValues ==
  IF focus = "tilesets"
  THEN TilesetsOfSize(1, 1, MaxTiles) \cup TilesetsOfSize(2, 1, MaxTiles)
  ELSE IF focus = "all"
       THEN TilesetsOfSize(1, 1, 1) \cup TilesetsOfSize(2, 1, 1)
       ELSE {BaseTileset}

TilesetCounts == IF focus \in {"all", "tilesets"} THEN 0..MaxTilesets ELSE {1}

\* only the first tile of each tileset compared
TilesetDiffersFirstTile(aTileset, bTileset) ==
  \/ aTileset.tileSize # bTileset.tileSize
  \/ Len(aTileset.tiles) # Len(bTileset.tiles)
  \/ ~is_same_image(aTileset.tiles[1], bTileset.tiles[1])

\* lines 106-118: one pair of tilesets
TilesetDiffers(aTileset, bTileset) ==
  \/ aTileset.tileSize # bTileset.tileSize
  \/ Len(aTileset.tiles) # Len(bTileset.tiles)
  \/ \E ti \in 1..Len(aTileset.tiles) :
        ~is_same_image(aTileset.tiles[ti], bTileset.tiles[ti])

(***************************************************************************)
(* 6. Layers, cels and images                                              *)
(***************************************************************************)
PersistentFlagsMask == 65535

\* int(flags) & int(LayerFlags::PersistentFlagsMask)
PersistentFlags(flags) == flags % (PersistentFlagsMask + 1)

NoCel == [null |-> TRUE]

\* the contents a cel can have
FirstCelValue == [bounds |-> <<0, 0, 1, 1>>, opacity |-> 255,
                  image |-> [w |-> 1, h |-> 1, pix |-> <<0>>]]

CelValues ==
  {FirstCelValue,
   [FirstCelValue EXCEPT !.image = [w |-> 1, h |-> 1, pix |-> <<1>>]],
   [bounds |-> <<1, 0, 2, 1>>, opacity |-> 128, image |-> [w |-> 2, h |-> 1, pix |-> <<0, 0>>]]}

\* a cel at frame f has frame() = f
MakeCel(f, v) ==
  [frame |-> f, bounds |-> v.bounds, opacity |-> v.opacity, image |-> v.image]

\* the cels of a layer of a sprite s: one optional cel per frame
AllCels(s) ==
  LET frames == 0..(s.totalFrames - 1)
      choices == [frames -> {NoCel} \cup CelValues]
  IN {[f \in frames |-> IF c[f] = NoCel THEN NoCel ELSE MakeCel(f, c[f])] : c \in choices}

NoCels(s) == [f \in 0..(s.totalFrames - 1) |-> NoCel]

FullCels(s) == [f \in 0..(s.totalFrames - 1) |-> MakeCel(f, FirstCelValue)]

BaseLayer(s) == [type |-> "LayerImage", name |-> "Layer 1", flags |-> 3,
                 opacity |-> 255, tilesetIndex |-> 0, cels |-> FullCels(s)]

\* the layers that differ from the base layer in one attribute
LayerVariants(s) ==
  {BaseLayer(s),
   [BaseLayer(s) EXCEPT !.name = "Layer 2"],
   [BaseLayer(s) EXCEPT !.flags = 1],
   [BaseLayer(s) EXCEPT !.flags = 3 + 65536],
   [BaseLayer(s) EXCEPT !.opacity = 128],
   [BaseLayer(s) EXCEPT !.type = "LayerTilemap"],
   [BaseLayer(s) EXCEPT !.type = "LayerTilemap", !.tilesetIndex = 1],
   [BaseLayer(s) EXCEPT !.type = "LayerTilemap", !.opacity = 128],
   [BaseLayer(s) EXCEPT !.type = "LayerGroup", !.cels = NoCels(s)]}

\* the base layer with a cel that carries no image
ImagelessLayer(s) ==
  [BaseLayer(s) EXCEPT !.cels[0] = MakeCel(0, [FirstCelValue EXCEPT !.image = NoImage])]

LayerValues(s) ==
  IF focus = "layers"
  THEN LayerVariants(s)
         \cup {[BaseLayer(s) EXCEPT !.cels = c] : c \in AllCels(s)}
         \cup {ImagelessLayer(s)}
  ELSE IF focus = "all"
       THEN LayerVariants(s)
              \cup {[BaseLayer(s) EXCEPT !.cels = NoCels(s)], ImagelessLayer(s),
                    [BaseLayer(s) EXCEPT !.cels[0] = MakeCel(0, [FirstCelValue EXCEPT !.opacity = 128])]}
       ELSE {BaseLayer(s)}

LayerCounts == IF focus \in {"all", "layers"} THEN 0..MaxLayers ELSE {1}

isImage(lay) == lay.type \in {"LayerImage", "LayerTilemap"}
isTilemap(lay) == lay.type = "LayerTilemap"

\* lines 138-145
LayerDiffers(aLay, bLay) ==
  \/ aLay.type # bLay.type
  \/ aLay.name # bLay.name
  \/ PersistentFlags(aLay.flags) # PersistentFlags(bLay.flags)
  \/ (isImage(aLay) /\ isImage(bLay) /\ aLay.opacity # bLay.opacity)
  \/ (isTilemap(aLay) /\ isTilemap(bLay) /\ aLay.tilesetIndex # bLay.tilesetIndex)

\* never true: the layer lists compared pairwise whatever their lengths
LayerCountDiffersNever(na, nb) == FALSE

\* line 125
LayerCountDiffers(na, nb) == na # nb

\* Layer::cel(f): the layer's cel at frame f, none when it has no cel there
CelAt(lay, f) == IF f \in DOMAIN lay.cels THEN lay.cels[f] ELSE NoCel

\* the cel fields compared for inequality
CelFieldsDiffer(aCel, bCel) ==
  \/ aCel.frame # bCel.frame
  \/ aCel.bounds # bCel.bounds
  \/ aCel.opacity # bCel.opacity

\* lines 160-162: the condition under which a pair of cels flags cels
CelFieldsMatch(aCel, bCel) ==
  \/ aCel.frame = bCel.frame
  \/ aCel.bounds = bCel.bounds
  \/ aCel.opacity = bCel.opacity

\* lines 165-171: the condition under which a pair of cels flags images
CelImagesDiffer(aCel, bCel) ==
  IF aCel.image # NoImage /\ bCel.image # NoImage
  THEN \/ ImageBounds(aCel.image) # ImageBounds(bCel.image)
       \/ ~is_same_image(aCel.image, bCel.image)
  ELSE (aCel.image = NoImage) # (bCel.image = NoImage)

\* lines 152-172: one frame of one layer pair
CompareCelPair(d, aCel, bCel) ==
  IF (aCel = NoCel) # (bCel = NoCel)
  THEN SetFlag(d, "cels")
  ELSE IF aCel # NoCel /\ bCel # NoCel
       THEN LET d1 == IF CelFieldsMatch(aCel, bCel) THEN SetFlag(d, "cels") ELSE d
            IN IF CelImagesDiffer(aCel, bCel) THEN SetFlag(d1, "images") ELSE d1
       ELSE d

\* the frame scan bounded by the shorter of the two documents
CelFramesShorter(sa, sb) == Min(sa.totalFrames, sb.totalFrames)

\* line 151: the bound of the frame scan
CelFrames(sa, sb) == sa.totalFrames

RECURSIVE ScanCels(_, _, _, _, _)
\* lines 151-173: for (f = from; f < n; ++f)
ScanCels(d, aLay, bLay, f, n) ==
  IF f >= n
  THEN d
  ELSE ScanCels(CompareCelPair(d, CelAt(aLay, f), CelAt(bLay, f)), aLay, bLay, f + 1, n)

\* the cels compared when the frame counts are equal
CelsComparedIfSameFrames(d) == ~d.totalFrames

\* the cels compared always
CelsComparedAlways(d) == TRUE

\* line 150
CelsCompared(d) == d.totalFrames

\* the mismatching pair's cels compared as well
CompareLayerPairNoBreak(d, aLay, bLay, sa, sb) ==
  LET d1 == IF LayerDiffers(aLay, bLay) THEN SetFlag(d, "layers") ELSE d
  IN IF CelsCompared(d1) THEN ScanCels(d1, aLay, bLay, 0, CelFrames(sa, sb)) ELSE d1

\* lines 135-174: the body of the layer loop for one pair of layers
CompareLayerPair(d, aLay, bLay, sa, sb) ==
  IF LayerDiffers(aLay, bLay)
  THEN SetFlag(d, "layers")
  ELSE IF CelsCompared(d)
       THEN ScanCels(d, aLay, bLay, 0, CelFrames(sa, sb))
       ELSE d

(***************************************************************************)
(* 7. Color profile, 8. grid bounds                                        *)
(***************************************************************************)
BaseColorSpace == [type |-> "sRGB", gamma |-> 220]

ColorSpaces ==
  IF focus = "all"
  THEN {BaseColorSpace, [type |-> "sRGB", gamma |-> 221], [type |-> "sRGB", gamma |-> 180],
        [type |-> "None", gamma |-> 0]}
  ELSE {BaseColorSpace}

\* gfx::ColorSpace::nearlyEqual: same type and parameters within a tolerance
nearlyEqual(x, y) ==
  /\ x.type = y.type
  /\ (x.type = "None" \/ (x.gamma - y.gamma \in -1..1))

CompareColorProfiles(d, aSpace, bSpace) ==
  IF ~nearlyEqual(aSpace, bSpace) THEN SetFlag(d, "colorProfiles") ELSE d

BaseGrid == <<0, 0, 16, 16>>

GridBoundsValues ==
  IF focus = "all" THEN {BaseGrid, <<0, 0, 8, 8>>, <<4, 4, 16, 16>>} ELSE {BaseGrid}

CompareGridBounds(d, aGrid, bGrid) ==
  IF aGrid # bGrid THEN SetFlag(d, "gridBounds") ELSE d

(***************************************************************************)
(* The call                                                                *)
(***************************************************************************)
\* delta after fetching x from a and y from b
Note(x, y) == IF x = y THEN delta ELSE "other"

InitFocus(fc) ==
  /\ focus = fc
  /\ pc = "canvas"
  /\ diff = NoDiff
  /\ a \in Sprites
  /\ b \in Sprites
  /\ aCur = Unread
  /\ bCur = Unread
  /\ aCount = 0
  /\ bCount = 0
  /\ i = 0
  /\ delta = "none"

Init == InitFocus("all")
InitPalettes == InitFocus("palettes")
InitTilesets == InitFocus("tilesets")
InitLayers == InitFocus("layers")

CanvasStep ==
  /\ pc = "canvas"
  /\ \E ac \in Canvases, bc \in Canvases :
       /\ diff' = CompareCanvas(diff, ac, bc)
       /\ delta' = IF ac = bc THEN delta ELSE IF WidthOnly(ac, bc) THEN "width" ELSE "other"
  /\ pc' = "frames"
  /\ UNCHANGED <<focus, a, b, aCur, bCur, aCount, bCount, i>>

FramesStep ==
  /\ pc = "frames"
  /\ \E aDur \in Durations(a), bDur \in Durations(b) :
       /\ diff' = CompareFrames(diff, a, b, aDur, bDur)
       /\ delta' = Note(aDur, bDur)
  /\ pc' = "tags"
  /\ UNCHANGED <<focus, a, b, aCur, bCur, aCount, bCount, i>>

TagsStep ==
  /\ pc = "tags"
  /\ \E aTags \in TagLists, bTags \in TagLists :
       /\ diff' = CompareTags(diff, aTags, bTags)
       /\ delta' = Note(aTags, bTags)
  /\ pc' = "palettes"
  /\ UNCHANGED <<focus, a, b, aCur, bCur, aCount, bCount, i>>

\* getPalettes() of both sprites
PalettesFetch ==
  /\ pc = "palettes"
  /\ \E aPals \in PaletteLists, bPals \in PaletteLists :
       /\ aCur' = aPals
       /\ bCur' = bPals
       /\ delta' = Note(aPals, bPals)
  /\ pc' = "palettesBody"
  /\ UNCHANGED <<focus, diff, a, b, aCount, bCount, i>>

\* lines 78-93
PalettesStep ==
  /\ pc = "palettesBody"
  /\ diff' = ComparePalettes(diff, aCur, bCur)
  /\ pc' = "tilesets"
  /\ UNCHANGED <<focus, a, b, aCur, bCur, aCount, bCount, i, delta>>

\* lines 96-102: the tileset counts and the entry of the tileset loop
TilesetsBegin ==
  /\ pc = "tilesets"
  /\ \E aTilesetSize \in TilesetCounts, bTilesetSize \in TilesetCounts :
       /\ aCount' = aTilesetSize
       /\ bCount' = bTilesetSize
       /\ diff' = IF aTilesetSize # bTilesetSize THEN SetFlag(diff, "tilesets") ELSE diff
       /\ delta' = Note(aTilesetSize, bTilesetSize)
       /\ pc' = IF aTilesetSize = bTilesetSize /\ 0 < aTilesetSize
                THEN "tilesetFetch" ELSE "layers"
  /\ i' = 0
  /\ aCur' = Unread
  /\ bCur' = Unread
  /\ UNCHANGED <<focus, a, b>>

\* lines 103-104: the tilesets at index i
TilesetFetch ==
  /\ pc = "tilesetFetch"
  /\ \E aTileset \in TilesetValues, bTileset \in TilesetValues :
       /\ aCur' = aTileset
       /\ bCur' = bTileset
       /\ delta' = Note(aTileset, bTileset)
  /\ pc' = "tilesetBody"
  /\ UNCHANGED <<focus, diff, a, b, aCount, bCount, i>>

\* lines 106-119: the body of the tileset loop; break and goto done leave the loop
TilesetBody ==
  /\ pc = "tilesetBody"
  /\ IF TilesetDiffers(aCur, bCur)
     THEN /\ diff' = SetFlag(diff, "tilesets")
          /\ pc' = "layers"
     ELSE /\ diff' = diff
          /\ pc' = "tilesetNext"
  /\ UNCHANGED <<focus, a, b, aCur, bCur, aCount, bCount, i, delta>>

\* line 102: ++i and the loop test
TilesetAdvance ==
  /\ pc = "tilesetNext"
  /\ i' = i + 1
  /\ pc' = IF i + 1 < aCount THEN "tilesetFetch" ELSE "layers"
  /\ aCur' = Unread
  /\ bCur' = Unread
  /\ UNCHANGED <<focus, diff, a, b, aCount, bCount, delta>>

\* lines 125-134: the layer counts and the entry of the layer loop
LayersBegin ==
  /\ pc = "layers"
  /\ \E na \in LayerCounts, nb \in LayerCounts :
       /\ aCount' = na
       /\ bCount' = nb
       /\ delta' = Note(na, nb)
       /\ IF LayerCountDiffers(na, nb)
          THEN /\ diff' = SetFlag(diff, "layers")
               /\ pc' = "colorProfiles"
          ELSE /\ diff' = diff
               /\ pc' = IF 0 < na /\ 0 < nb THEN "layerFetch" ELSE "colorProfiles"
  /\ i' = 0
  /\ aCur' = Unread
  /\ bCur' = Unread
  /\ UNCHANGED <<focus, a, b>>

\* lines 135-136: the layers the two iterators point at
LayerFetch ==
  /\ pc = "layerFetch"
  /\ \E aLay \in LayerValues(a), bLay \in LayerValues(b) :
       /\ aCur' = aLay
       /\ bCur' = bLay
       /\ delta' = Note(aLay, bLay)
  /\ pc' = "layerBody"
  /\ UNCHANGED <<focus, diff, a, b, aCount, bCount, i>>

\* lines 138-174: the body of the layer loop; break leaves the loop
LayerBody ==
  /\ pc = "layerBody"
  /\ diff' = CompareLayerPair(diff, aCur, bCur, a, b)
  /\ pc' = IF LayerDiffers(aCur, bCur) THEN "colorProfiles" ELSE "layerNext"
  /\ UNCHANGED <<focus, a, b, aCur, bCur, aCount, bCount, i, delta>>

\* line 134: ++aIt, ++bIt and the loop test
LayerAdvance ==
  /\ pc = "layerNext"
  /\ i' = i + 1
  /\ pc' = IF i + 1 < aCount /\ i + 1 < bCount THEN "layerFetch" ELSE "colorProfiles"
  /\ aCur' = Unread
  /\ bCur' = Unread
  /\ UNCHANGED <<focus, diff, a, b, aCount, bCount, delta>>

ColorProfilesStep ==
  /\ pc = "colorProfiles"
  /\ \E aSpace \in ColorSpaces, bSpace \in ColorSpaces :
       /\ diff' = CompareColorProfiles(diff, aSpace, bSpace)
       /\ delta' = Note(aSpace, bSpace)
  /\ pc' = "gridBounds"
  /\ aCur' = Unread
  /\ bCur' = Unread
  /\ UNCHANGED <<focus, a, b, aCount, bCount, i>>

GridBoundsStep ==
  /\ pc = "gridBounds"
  /\ \E aGrid \in GridBoundsValues, bGrid \in GridBoundsValues :
       /\ diff' = CompareGridBounds(diff, aGrid, bGrid)
       /\ delta' = Note(aGrid, bGrid)
  /\ pc' = "done"
  /\ UNCHANGED <<focus, a, b, aCur, bCur, aCount, bCount, i>>

Next ==
  \/ CanvasStep
  \/ FramesStep
  \/ TagsStep
  \/ PalettesFetch
  \/ PalettesStep
  \/ TilesetsBegin
  \/ TilesetFetch
  \/ TilesetBody
  \/ TilesetAdvance
  \/ LayersBegin
  \/ LayerFetch
  \/ LayerBody
  \/ LayerAdvance
  \/ ColorProfilesStep
  \/ GridBoundsStep

Spec == Init /\ [][Next]_vars
SpecPalettes == InitPalettes /\ [][Next]_vars
SpecTilesets == InitTilesets /\ [][Next]_vars
SpecLayers == InitLayers /\ [][Next]_vars

(***************************************************************************)
(* Properties                                                              *)
(***************************************************************************)
AfterLayers == pc \in {"colorProfiles", "gridBounds", "done"}

\* C1: in every state of the call, also between two dimension checks,
\* anything is true exactly when at least one of the other flags is true.
AnythingIffSomeFlag == diff.anything <=> (\E f \in DimFlags : diff[f])

\* a state between two dimension checks in which a flag is already set
AnythingSetMidway == pc = "layers" /\ diff.tilesets /\ ~diff.canvas /\ diff.anything

\* C2: when everything fetched from b equals what was fetched from a, the
\* result has every flag false, anything included.
IdenticalCopyNoDiff == delta = "none" => diff = NoDiff

\* the call finished on identical documents with two layers that carry cels
IdenticalCopyCompared ==
  pc = "done" /\ delta = "none" /\ aCount = 2 /\ bCount = 2 /\ i = 2

\* C3: when the flattened layer counts differ, layers is set and cels and
\* images stay false, also when the total frame counts differ.
LayerCountMismatchSkipsCels ==
  (AfterLayers /\ aCount # bCount) => (diff.layers /\ ~diff.cels /\ ~diff.images)

\* both documents have layers, their counts and their frame counts differ
LayerCountMismatchReached ==
  /\ pc = "done"
  /\ aCount # bCount
  /\ Min(aCount, bCount) >= 1
  /\ diff.totalFrames
  /\ diff.layers

\* whether the cels of the layer pair at frame f flag anything
CelPairFlagsAt(aLay, bLay, f) ==
  CompareCelPair(NoDiff, CelAt(aLay, f), CelAt(bLay, f)).anything

\* C4 as stated: for a layer pair whose cels are compared, cels or images is
\* newly set exactly when a frame below the shorter document's frame count
\* flags something.
CelScanUpToShorterCount ==
  [][(pc = "layerBody" /\ ~LayerDiffers(aCur, bCur) /\ diff.totalFrames)
       => ((diff'.cels \/ diff'.images)
             <=> (\/ diff.cels
                  \/ diff.images
                  \/ \E f \in 0..(Min(a.totalFrames, b.totalFrames) - 1) :
                        CelPairFlagsAt(aCur, bCur, f)))]_vars

\* C4 amended: the frames examined are 0 .. totalFrames(a) - 1, so a cel of b
\* at or beyond a's frame count sets nothing, and a cel of a at or beyond b's
\* frame count sets cels.
CelScanUpToFrameCountOfA ==
  [][(pc = "layerBody" /\ ~LayerDiffers(aCur, bCur) /\ diff.totalFrames)
       => /\ (diff'.cels \/ diff'.images)
               <=> (\/ diff.cels
                    \/ diff.images
                    \/ \E f \in 0..(a.totalFrames - 1) : CelPairFlagsAt(aCur, bCur, f))
          /\ (\E f \in b.totalFrames..(a.totalFrames - 1) : CelAt(aCur, f) # NoCel)
               => diff'.cels]_vars

\* a is the longer document and its only cel lies beyond b's frame count:
\* the first layer pair has set cels
CelBeyondShorterCountFlagged ==
  /\ pc = "layerNext"
  /\ i = 0
  /\ a.totalFrames > b.totalFrames
  /\ \A f \in 0..(b.totalFrames - 1) : CelAt(aCur, f) = NoCel /\ CelAt(bCur, f) = NoCel
  /\ diff.cels

\* C5: after the palette check, palettes is never set for lists of the same
\* length, whatever their colors; for lists of different lengths it is set
\* exactly when a pair of palettes within the shorter list differs.
PalettesOnlyWhenLengthsDiffer ==
  /\ pc \in {"canvas", "frames", "tags", "palettes", "palettesBody"} => ~diff.palettes
  /\ pc = "tilesets" =>
       /\ Len(aCur) = Len(bCur) => ~diff.palettes
       /\ Len(aCur) # Len(bCur) =>
            (diff.palettes <=> \E k \in 1..Min(Len(aCur), Len(bCur)) : aCur[k] # bCur[k])

\* palette lists of the same length with different colors were compared
EqualLengthPalettesDiffer ==
  pc = "tilesets" /\ Len(aCur) = Len(bCur) /\ aCur # bCur /\ ~diff.palettes

\* C6: when b differs from a in the canvas width only, the result is exactly
\* anything and canvas.
WidthOnlyFlagsCanvas ==
  (pc = "done" /\ delta = "width")
     => diff = [NoDiff EXCEPT !["anything"] = TRUE, !["canvas"] = TRUE]

WidthOnlyCompared == pc = "done" /\ delta = "width" /\ aCount = 2 /\ i = 2

\* C7: with equal tileset counts, tilesets is not set while every pair so far
\* had the same tile size, tile count and tile pixels, and a pair with the
\* same tile size and tile count sets it exactly when one of its paired tiles
\* differs in a pixel.
TilesetsFlagIffTileDiffers ==
  /\ pc \in {"tilesetFetch", "tilesetBody", "tilesetNext"} => ~diff.tilesets
  /\ (pc = "layers" /\ aCur = Unread /\ aCount = bCount) => ~diff.tilesets
  /\ (pc \in {"tilesetNext", "layers"} /\ aCur # Unread
        /\ aCur.tileSize = bCur.tileSize /\ Len(aCur.tiles) = Len(bCur.tiles))
       => (diff.tilesets
             <=> \E ti \in 1..Len(aCur.tiles) : aCur.tiles[ti].pix # bCur.tiles[ti].pix)

\* the second pair of tilesets differs in the pixels of its last tile only
LastTileOfSecondTilesetDiffers ==
  /\ pc = "layers"
  /\ aCur # Unread
  /\ i = 1
  /\ aCur.tileSize = bCur.tileSize
  /\ Len(aCur.tiles) = 2
  /\ Len(bCur.tiles) = 2
  /\ aCur.tiles[1] = bCur.tiles[1]
  /\ aCur.tiles[2] # bCur.tiles[2]
  /\ diff.tilesets

\* C8: with equal total frame counts cels and images are never set; cels or
\* images set implies totalFrames set.
CelsOnlyWhenFrameCountsDiffer ==
  /\ (diff.cels \/ diff.images) => diff.totalFrames
  /\ a.totalFrames = b.totalFrames => (~diff.cels /\ ~diff.images)

\* a layer pair with different cels was processed with equal frame counts
DifferentCelsSameFrameCount ==
  /\ pc = "layerNext"
  /\ a.totalFrames = b.totalFrames
  /\ aCur.cels # bCur.cels
  /\ ~diff.cels
  /\ ~diff.images

\* C9: the first layer pair that differs sets layers and ends the loop; its
\* cels are not compared, so cels and images keep the values the earlier
\* pairs gave them.
LayerMismatchStopsLoop ==
  [][(pc = "layerBody" /\ LayerDiffers(aCur, bCur))
       => /\ diff'.layers
          /\ diff'.cels = diff.cels
          /\ diff'.images = diff.images
          /\ pc' = "colorProfiles"]_vars

\* the first of two layer pairs differs in an attribute and in its cels, the
\* frame counts differ, and nothing was reported about cels
MismatchWithDifferentCels ==
  /\ pc = "colorProfiles"
  /\ aCur # Unread
  /\ i = 0
  /\ aCount = 2
  /\ bCount = 2
  /\ diff.totalFrames
  /\ diff.layers
  /\ aCur.cels # bCur.cels
  /\ ~diff.cels
  /\ ~diff.images

\* whether the cels of the layer pair at frame f set cels: exactly one side
\* has a cel, or both have one and a field is equal
CelPairSetsCels(aLay, bLay, f) ==
  LET aCel == CelAt(aLay, f)
      bCel == CelAt(bLay, f)
  IN \/ (aCel = NoCel) # (bCel = NoCel)
     \/ /\ aCel # NoCel
        /\ bCel # NoCel
        /\ (aCel.frame = bCel.frame \/ aCel.bounds = bCel.bounds \/ aCel.opacity = bCel.opacity)

\* whether the cels of the layer pair at frame f set images
CelPairSetsImages(aLay, bLay, f) ==
  LET aCel == CelAt(aLay, f)
      bCel == CelAt(bLay, f)
  IN /\ aCel # NoCel
     /\ bCel # NoCel
     /\ IF aCel.image # NoImage /\ bCel.image # NoImage
        THEN aCel.image # bCel.image
        ELSE (aCel.image = NoImage) # (bCel.image = NoImage)

\* C10: for a layer pair whose cels are compared, cels is set exactly when
\* some examined frame has a cel on one side only or a cel on both sides with
\* an equal frame index, bounds or opacity; the scan goes on after that, so
\* images is set by any examined frame, also a later one.
CelPairRule ==
  [][(pc = "layerBody" /\ ~LayerDiffers(aCur, bCur) /\ diff.totalFrames)
       => /\ diff'.cels
               <=> (diff.cels \/ \E f \in 0..(CelFrames(a, b) - 1) : CelPairSetsCels(aCur, bCur, f))
          /\ diff'.images
               <=> (diff.images \/ \E f \in 0..(CelFrames(a, b) - 1) : CelPairSetsImages(aCur, bCur, f))]_vars

\* frame 0 has a cel on one side only, frame 1 a cel on both sides with the
\* same bounds and opacity and different pixels: cels and images are both set
ScanContinuesAfterCels ==
  /\ pc = "layerNext"
  /\ i = 0
  /\ CelAt(aCur, 0) # NoCel
  /\ CelAt(bCur, 0) = NoCel
  /\ CelAt(aCur, 1) # NoCel
  /\ CelAt(bCur, 1) # NoCel
  /\ CelAt(aCur, 1).bounds = CelAt(bCur, 1).bounds
  /\ CelAt(aCur, 1).image # CelAt(bCur, 1).image
  /\ diff.cels
  /\ diff.images
====
